---- MODULE Spec2Model ----
(***************************************************************************)
(* Model of app.py: the Streamlit thumbnail pipeline                       *)
(*   get_openai_client, analyze_thumbnail, synthesize_insights,            *)
(*   generate_wireframe and the script body main().                        *)
(*                                                                         *)
(* Text is a sequence of lexical tokens; JSON values and tokens share one  *)
(* record shape [t, s, items] so that any two of them can be compared.     *)
(* A number is kept as the characters of its lexeme or of its repr.        *)
(***************************************************************************)
EXTENDS Integers, Sequences, FiniteSets, TLC

\* ------------------------------------------------------------------ bounds
MaxUploads == 2
MaxData == 2
MaxAnalyses == 6

\* analyses[-5:] keeps the last K entries
K == 5

\* ------------------------------------------------------- tokens and values
\* Lexical tokens of a response text.
TokP(c) == [t |-> "punct", s |-> c, items |-> <<>>]
TokS(c) == [t |-> "string", s |-> c, items |-> <<>>]
\* cs: the characters of a lexeme the scanner's number pattern matched,
\* -?(0|[1-9][0-9]*)(.[0-9]+)?([eE][-+]?[0-9]+)?, as one-character strings.
Chars(cs) == [i \in 1..Len(cs) |-> [t |-> "char", s |-> cs[i], items |-> <<>>]]
TokN(cs) == [t |-> "number", s |-> "", items |-> Chars(cs)]
TokW(c) == [t |-> "word", s |-> c, items |-> <<>>]

\* Python values produced by json.loads (and the str built from a raw text).
PyStr(c) == [t |-> "str", s |-> c, items |-> <<>>]
PyRawStr(text) == [t |-> "str", s |-> "", items |-> text]
\* An int and a finite float hold the characters of their repr; nan, inf
\* and -inf are named.
PyInt(cs) == [t |-> "int", s |-> "", items |-> Chars(cs)]
PyFloat(cs) == [t |-> "float", s |-> "", items |-> Chars(cs)]
PyFloatSpecial(c) == [t |-> "float", s |-> c, items |-> <<>>]
PyNone == [t |-> "None", s |-> "", items |-> <<>>]
PyList(xs) == [t |-> "list", s |-> "", items |-> xs]
PyItem(k, v) == [t |-> "item", s |-> k, items |-> <<v>>]
PyDict(kvs) == [t |-> "dict", s |-> "", items |-> kvs]

\* d[k] = v on a dict's item sequence: replace in place, else append.
DictSet(kvs, k, v) ==
    IF \E i \in 1..Len(kvs) : kvs[i].s = k
    THEN [i \in 1..Len(kvs) |-> IF kvs[i].s = k THEN PyItem(k, v) ELSE kvs[i]]
    ELSE Append(kvs, PyItem(k, v))

\* dict.get(key, default)
DictGet(d, k, default) ==
    IF \E i \in 1..Len(d.items) : d.items[i].s = k
    THEN LET i == CHOOSE j \in 1..Len(d.items) : d.items[j].s = k
         IN d.items[i].items[1]
    ELSE default

\* ---------------------------------------------------------------- json.loads
Digits == <<"0", "1", "2", "3", "4", "5", "6", "7", "8", "9">>
DigitVal(c) == (CHOOSE i \in 1..10 : Digits[i] = c) - 1
Zeros(n) == [i \in 1..n |-> "0"]
Reverse(cs) == [i \in 1..Len(cs) |-> cs[Len(cs) - i + 1]]

RECURSIVE NatOf(_)
NatOf(ds) ==
    IF ds = <<>> THEN 0
    ELSE 10 * NatOf(SubSeq(ds, 1, Len(ds) - 1)) + DigitVal(ds[Len(ds)])

RECURSIVE NatChars(_)
NatChars(n) ==
    IF n < 10 THEN <<Digits[n + 1]>>
    ELSE NatChars(n \div 10) \o <<Digits[(n % 10) + 1]>>

\* The index of the first element of cs that is in S, Len(cs) + 1 if none.
FirstIn(cs, S) ==
    LET hits == {i \in 1..Len(cs) : cs[i] \in S}
    IN IF hits = {} THEN Len(cs) + 1
       ELSE CHOOSE i \in hits : \A j \in hits : i <= j

StripLeadingZeros(ds) ==
    SubSeq(ds, FirstIn(ds, {"1", "2", "3", "4", "5", "6", "7", "8", "9"}), Len(ds))
StripTrailingZeros(ds) == Reverse(StripLeadingZeros(Reverse(ds)))

\* The value of an exponent's digits. From ten digits on it is held at 10^9:
\* the sum with the mantissa's length is then above 309 or below -325 as the
\* true one is.
ExponentOf(ds) ==
    LET z == StripLeadingZeros(ds)
    IN IF Len(z) > 9 THEN 1000000000 ELSE NatOf(z)

\* ------------------------------------------- exact arithmetic for float()
\* A natural number of any size: its limbs to the base 10000, lowest first,
\* the highest not 0. The operations run over the limbs by halving the
\* range; the test of the left half's carry (never negative) has the left
\* half computed before the right one is entered.
Base == 10000

BigTrim(a) == Reverse(SubSeq(Reverse(a), FirstIn(Reverse(a), 1..(Base - 1)), Len(a)))

\* The number written by the digits ds.
BigOfDigits(ds) ==
    LET n == Len(ds)
    IN BigTrim([i \in 1..((n + 3) \div 4) |->
                   NatOf(SubSeq(ds, IF n - 4 * i + 1 < 1 THEN 1 ELSE n - 4 * i + 1,
                                n - 4 * (i - 1)))])

\* The digits that write a.
BigDigits(a) ==
    IF a = <<>> THEN <<"0">>
    ELSE StripLeadingZeros(
            [p \in 1..(4 * Len(a)) |->
                Digits[((a[Len(a) - ((p - 1) \div 4)] \div 10^(3 - ((p - 1) % 4))) % 10) + 1]])

\* The limbs of a carry.
CarryLimbs(c) ==
    IF c = 0 THEN <<>> ELSE IF c < Base THEN <<c>> ELSE <<c % Base, c \div Base>>

\* The limbs st.out with the last carry st.c on top.
BigCarried(st) == st.out \o CarryLimbs(st.c)

\* -1, 0, 1 as a < b, a = b, a > b on the limbs lo..hi, the high ones first.
RECURSIVE BigCmpRange(_, _, _, _)
BigCmpRange(a, b, lo, hi) ==
    IF lo > hi THEN 0
    ELSE IF lo = hi
         THEN (IF a[lo] = b[lo] THEN 0 ELSE IF a[lo] > b[lo] THEN 1 ELSE -1)
    ELSE LET mid == (lo + hi) \div 2
             high == BigCmpRange(a, b, mid + 1, hi)
         IN IF high # 0 THEN high ELSE BigCmpRange(a, b, lo, mid)

BigCmp(a, b) ==
    IF Len(a) # Len(b) THEN (IF Len(a) > Len(b) THEN 1 ELSE -1)
    ELSE BigCmpRange(a, b, 1, Len(a))

\* The limb i of a, 0 above its highest.
Limb(a, i) == IF i <= Len(a) THEN a[i] ELSE 0

\* st.out and the carry st.c after the limbs lo..hi of a + b.
RECURSIVE BigAddRange(_, _, _, _, _)
BigAddRange(a, b, st, lo, hi) ==
    IF lo > hi THEN st
    ELSE IF lo = hi
         THEN LET x == Limb(a, lo) + Limb(b, lo) + st.c
              IN [out |-> Append(st.out, x % Base), c |-> x \div Base]
    ELSE LET mid == (lo + hi) \div 2
             left == BigAddRange(a, b, st, lo, mid)
         IN IF left.c < 0 THEN left ELSE BigAddRange(a, b, left, mid + 1, hi)

\* a + b + c
BigAdd(a, b, c) ==
    BigCarried(BigAddRange(a, b, [out |-> <<>>, c |-> c], 1,
                           IF Len(a) > Len(b) THEN Len(a) ELSE Len(b)))

\* st.out and the borrow st.c after the limbs lo..hi of a - b.
RECURSIVE BigSubRange(_, _, _, _, _)
BigSubRange(a, b, st, lo, hi) ==
    IF lo > hi THEN st
    ELSE IF lo = hi
         THEN LET x == a[lo] - Limb(b, lo) - st.c
              IN [out |-> Append(st.out, IF x < 0 THEN x + Base ELSE x),
                  c |-> IF x < 0 THEN 1 ELSE 0]
    ELSE LET mid == (lo + hi) \div 2
             left == BigSubRange(a, b, st, lo, mid)
         IN IF left.c < 0 THEN left ELSE BigSubRange(a, b, left, mid + 1, hi)

\* a - b for a >= b
BigSub(a, b) == BigTrim(BigSubRange(a, b, [out |-> <<>>, c |-> 0], 1, Len(a)).out)

\* st.out and the carry st.c after the limbs lo..hi of a * k.
RECURSIVE BigMulRange(_, _, _, _, _)
BigMulRange(a, k, st, lo, hi) ==
    IF lo > hi THEN st
    ELSE IF lo = hi
         THEN LET x == a[lo] * k + st.c
              IN [out |-> Append(st.out, x % Base), c |-> x \div Base]
    ELSE LET mid == (lo + hi) \div 2
             left == BigMulRange(a, k, st, lo, mid)
         IN IF left.c < 0 THEN left ELSE BigMulRange(a, k, left, mid + 1, hi)

\* a * k + c for 0 < k < 2^17 and c < 2^17
BigMulSmall(a, k, c) ==
    BigCarried(BigMulRange(a, k, [out |-> <<>>, c |-> c], 1, Len(a)))

\* a * 2^n
RECURSIVE BigMulPow2(_, _)
BigMulPow2(a, n) ==
    IF a = <<>> \/ n = 0 THEN a
    ELSE IF n <= 13 THEN BigMulSmall(a, 2^n, 0)
    ELSE BigMulPow2(BigMulPow2(a, n \div 2), n - (n \div 2))

\* a * 5^n
RECURSIVE BigMulPow5(_, _)
BigMulPow5(a, n) ==
    IF a = <<>> \/ n = 0 THEN a
    ELSE IF n <= 6 THEN BigMulSmall(a, 5^n, 0)
    ELSE BigMulPow5(BigMulPow5(a, n \div 2), n - (n \div 2))

\* a * 10^n
BigMulPow10(a, n) ==
    IF a = <<>> THEN a
    ELSE LET shifted == [i \in 1..(n \div 4) |-> 0] \o a
         IN IF n % 4 = 0 THEN shifted ELSE BigMulSmall(shifted, 10^(n % 4), 0)

\* a times the limbs lo..hi of b
RECURSIVE BigMulRangeOf(_, _, _, _)
BigMulRangeOf(a, b, lo, hi) ==
    IF lo > hi THEN <<>>
    ELSE IF lo = hi
         THEN (IF b[lo] = 0 THEN <<>>
               ELSE [i \in 1..(lo - 1) |-> 0] \o BigMulSmall(a, b[lo], 0))
    ELSE LET mid == (lo + hi) \div 2
         IN BigAdd(BigMulRangeOf(a, b, lo, mid), BigMulRangeOf(a, b, mid + 1, hi), 0)

\* a * b
BigMul(a, b) == IF a = <<>> THEN a ELSE BigMulRangeOf(a, b, 1, Len(b))

\* 2^52 = 4503599627370496 and 2^53 = 9007199254740992
Big2p52 == <<496, 2737, 5996, 4503>>
Big2p53 == <<992, 5474, 1992, 9007>>

\* A double: m * 2^u with m < 2^53 and -1074 <= u <= 971, or zero, or inf.
DoubleOf(m, u) == [kind |-> "finite", m |-> m, u |-> u]
DoubleZero == [kind |-> "zero", m |-> <<>>, u |-> 0]
DoubleInf == [kind |-> "inf", m |-> <<>>, u |-> 0]

\* e2 with den * 2^e2 <= num < den * 2^(e2 + 1), num and den scaled to it.
RECURSIVE Normalize(_, _, _)
Normalize(num, den, e2) ==
    IF BigCmp(num, den) < 0 THEN Normalize(BigMulSmall(num, 2, 0), den, e2 - 1)
    ELSE IF BigCmp(num, BigMulSmall(den, 2, 0)) >= 0
         THEN Normalize(num, BigMulSmall(den, 2, 0), e2 + 1)
    ELSE [num |-> num, den |-> den, e2 |-> e2]

\* k more bits of the quotient by den after those of st.m, and what remains
\* of the dividend st.num.
RECURSIVE QuotientBits(_, _, _)
QuotientBits(st, den, k) ==
    IF k = 0 THEN st
    ELSE IF k > 1
         THEN LET half == QuotientBits(st, den, k \div 2)
              IN IF half.num = <<>>
                 THEN [m |-> BigMulPow2(half.m, k - (k \div 2)), num |-> <<>>]
                 ELSE QuotientBits(half, den, k - (k \div 2))
    ELSE IF BigCmp(st.num, den) >= 0
         THEN [m |-> BigMulSmall(st.m, 2, 1),
               num |-> BigMulSmall(BigSub(st.num, den), 2, 0)]
    ELSE [m |-> BigMulSmall(st.m, 2, 0), num |-> BigMulSmall(st.num, 2, 0)]

\* The bits of the mantissa of a double whose binary exponent is e2: 53,
\* fewer for a subnormal.
MantissaBits(e2) == IF e2 + 1075 < 53 THEN e2 + 1075 ELSE 53

\* Round half to even: c compares what remains of the dividend with half a
\* unit of the mantissa m.
RoundsUp(c, m) == c > 0 \/ (c = 0 /\ m # <<>> /\ m[1] % 2 = 1)

\* The double of the rounded mantissa m, of unit 2^u and binary exponent e2.
MakeDouble(m, u, e2) ==
    IF e2 >= 1024 THEN DoubleInf
    ELSE IF e2 + 1075 < 0 THEN DoubleZero
    ELSE IF m = <<>> THEN DoubleZero
    ELSE IF m = Big2p53
         THEN (IF u + 1 > 971 THEN DoubleInf ELSE DoubleOf(Big2p52, u + 1))
    ELSE DoubleOf(m, u)

\* The double of the quotient bits r.m and the remainder r.num.
RoundQuotient(r, den, u, e2) ==
    MakeDouble(IF RoundsUp(BigCmp(r.num, den), r.m) THEN BigAdd(r.m, <<1>>, 0) ELSE r.m,
               u, e2)

\* The double nearest to nz.num / nz.den * 2^nz.e2, the ratio in [1, 2).
DoubleOfRatio(nz) ==
    RoundQuotient(QuotientBits([m |-> <<>>, num |-> nz.num], nz.den, MantissaBits(nz.e2)),
                  nz.den, nz.e2 - MantissaBits(nz.e2) + 1, nz.e2)

\* n, 0 for a negative n.
Pos(n) == IF n > 0 THEN n ELSE 0

\* An estimate of the binary exponent of a number of decimal exponent e.
BinaryEstimate(e) == (e * 33219) \div 10000

\* float(): the double nearest to d[1].d[2]...d[n] * 10^e, ties to the even
\* mantissa (d without leading or trailing zeros, -325 < e < 309).
DecimalToDouble(d, e) ==
    DoubleOfRatio(
        Normalize(BigMulPow2(BigMulPow10(BigOfDigits(d), Pos(e - Len(d) + 1)),
                             Pos(0 - BinaryEstimate(e))),
                  BigMulPow2(BigMulPow10(<<1>>, Pos(Len(d) - 1 - e)),
                             Pos(BinaryEstimate(e))),
                  BinaryEstimate(e)))

\* The decimals that convert to the double m * 2^u lie between the
\* midpoints to its neighbours, a midpoint itself included when m is even.
\* In units of 2^(u - 2) the midpoints are lo and hi; unit is what a decimal
\* is multiplied by to be in the same units.
RoundingInterval(m, u) ==
    [lo |-> BigMulPow2(BigSub(BigMulSmall(m, 4, 0),
                              IF m = Big2p52 /\ u > -1074 THEN <<1>> ELSE <<2>>),
                       Pos(u - 2)),
     hi |-> BigMulPow2(BigMulSmall(m, 4, 2), Pos(u - 2)),
     unit |-> BigMulPow2(<<1>>, Pos(2 - u)),
     even |-> m[1] % 2 = 0]

\* cl and ch compare a decimal with the ends of an interval: inside, an end
\* itself when closed.
Within(cl, ch, closed) == (cl > 0 \/ (cl = 0 /\ closed)) /\ (ch < 0 \/ (ch = 0 /\ closed))

\* Whether the decimal c * 10^k lies in the interval iv.
RoundsTo(c, k, iv) ==
    Within(BigCmp(BigMulPow10(BigMul(iv.unit, c), Pos(k)), BigMulPow10(iv.lo, Pos(0 - k))),
           BigCmp(BigMulPow10(BigMul(iv.unit, c), Pos(k)), BigMulPow10(iv.hi, Pos(0 - k))),
           iv.even)

\* The digits cd without trailing zeros and the exponent of the first one,
\* the last being that of 10^k.
DigitsAndExponent(cd, k) == [digits |-> StripTrailingZeros(cd), exp |-> k + Len(cd) - 1]

\* Whether sig is nearer to its first n digits plus one than to those digits,
\* a tie going to the even one.
NearerAbove(sig, n) ==
    \/ DigitVal(sig[n + 1]) > 5
    \/ DigitVal(sig[n + 1]) = 5 /\ (Len(sig) > n + 1 \/ DigitVal(sig[n]) % 2 = 1)

\* The first n digits of sig as a number, plus add.
Truncated(sig, n, add) == BigAdd(BigOfDigits(SubSeq(sig, 1, n)), <<>>, add)

\* The first of near * 10^k and far * 10^k that lies in iv, else rest.
FirstRounding(near, far, k, iv, rest) ==
    IF RoundsTo(near, k, iv) THEN DigitsAndExponent(BigDigits(near), k)
    ELSE IF RoundsTo(far, k, iv) THEN DigitsAndExponent(BigDigits(far), k)
    ELSE rest

\* The shortest digit string that converts back to the double, the nearest
\* to it among those of one length: tried with n digits, then n + 1. sig and
\* ev are the exact decimal digits of the double and the exponent of the
\* first, iv its rounding interval.
RECURSIVE ShortestFrom(_, _, _, _)
ShortestFrom(n, sig, ev, iv) ==
    IF Len(sig) <= n THEN [digits |-> sig, exp |-> ev]
    ELSE FirstRounding(Truncated(sig, n, IF NearerAbove(sig, n) THEN 1 ELSE 0),
                       Truncated(sig, n, IF NearerAbove(sig, n) THEN 0 ELSE 1),
                       ev - n + 1, iv, ShortestFrom(n + 1, sig, ev, iv))

\* The shortest digits for the double m * 2^u whose exact digits are exact.
ShortestOfExact(exact, m, u) ==
    ShortestFrom(1, StripTrailingZeros(exact), Len(exact) - 1 + (IF u < 0 THEN u ELSE 0),
                 RoundingInterval(m, u))

\* The digits float.__repr__ prints for the double m * 2^u.
ShortestDigits(m, u) ==
    ShortestOfExact(BigDigits(IF u >= 0 THEN BigMulPow2(m, u) ELSE BigMulPow5(m, 0 - u)),
                    m, u)

\* float.__repr__ of the value d[1].d[2]...d[n] * 10^e, d without leading
\* or trailing zeros: scientific notation when e < -4 or e >= 16.
FloatRepr(d, e) ==
    IF e < -4 \/ e >= 16
    THEN <<d[1]>> \o (IF Len(d) > 1 THEN <<".">> \o Tail(d) ELSE <<>>)
             \o <<"e", IF e < 0 THEN "-" ELSE "+">>
             \o (IF e > -10 /\ e < 10 THEN <<"0">> ELSE <<>>)
             \o NatChars(IF e < 0 THEN 0 - e ELSE e)
    ELSE IF e < 0 THEN <<"0", ".">> \o Zeros(0 - e - 1) \o d
    ELSE IF Len(d) <= e + 1 THEN d \o Zeros(e + 1 - Len(d)) \o <<".", "0">>
    ELSE SubSeq(d, 1, e + 1) \o <<".">> \o SubSeq(d, e + 2, Len(d))

\* sys.int_info.default_max_str_digits: int() of more digits raises.
MaxStrDigits == 4300

\* The digits of a lexeme without fraction and exponent, <<>> for a lexeme
\* that has one.
IntegerDigits(cs) ==
    IF \E i \in 1..Len(cs) : cs[i] \in {".", "e", "E"} THEN <<>>
    ELSE IF cs[1] = "-" THEN Tail(cs) ELSE cs

\* The parts of a number lexeme: the sign, the mantissa between the sign and
\* the "e", the exponent after the "e"; of the mantissa the digits before
\* and after the ".".
SignOf(cs) == IF cs[1] = "-" THEN <<"-">> ELSE <<>>
Mantissa(cs) == SubSeq(cs, Len(SignOf(cs)) + 1, FirstIn(cs, {"e", "E"}) - 1)
ExponentPart(cs) == SubSeq(cs, FirstIn(cs, {"e", "E"}) + 1, Len(cs))
IntPart(mant) == SubSeq(mant, 1, FirstIn(mant, {"."}) - 1)
FracPart(mant) == SubSeq(mant, FirstIn(mant, {"."}) + 1, Len(mant))

\* The value of the exponent part, 0 when there is none.
ExponentValue(expo) ==
    IF expo = <<>> THEN 0
    ELSE IF expo[1] = "-" THEN 0 - ExponentOf(Tail(expo))
    ELSE IF expo[1] = "+" THEN ExponentOf(Tail(expo))
    ELSE ExponentOf(expo)

\* int(lexeme): the digits ds with the sign, "-0" being 0.
ParseInt(sign, ds) == IF ds = <<"0">> THEN PyInt(ds) ELSE PyInt(sign \o ds)

FloatZero(sign) == PyFloat(sign \o <<"0", ".", "0">>)
FloatInf(sign) == PyFloatSpecial(IF sign = <<>> THEN "inf" ELSE "-inf")

\* The float of a double, held as its repr.
FloatOfShortest(sign, short) == PyFloat(sign \o FloatRepr(short.digits, short.exp))

FloatOfDouble(sign, dbl) ==
    IF dbl.kind = "inf" THEN FloatInf(sign)
    ELSE IF dbl.kind = "zero" THEN FloatZero(sign)
    ELSE FloatOfShortest(sign, ShortestDigits(dbl.m, dbl.u))

\* float of d[1].d[2]...d[n] * 10^e, d without leading or trailing zeros:
\* beyond the doubles on either side without a look at the digits.
FloatOfDecimal(sign, d, e) ==
    IF d = <<>> THEN FloatZero(sign)
    ELSE IF e >= 309 THEN FloatInf(sign)
    ELSE IF e <= -325 THEN FloatZero(sign)
    ELSE FloatOfDouble(sign, DecimalToDouble(d, e))

\* float of the digits all, the first n of them before the ".", times 10^ev.
FloatOfDigits(sign, all, n, ev) ==
    FloatOfDecimal(sign, StripTrailingZeros(StripLeadingZeros(all)),
                   n - (Len(all) - Len(StripLeadingZeros(all))) - 1 + ev)

\* float(lexeme), the nearest double.
ParseFloat(sign, mant, ev) ==
    FloatOfDigits(sign, IntPart(mant) \o FracPart(mant), Len(IntPart(mant)), ev)

\* The int or float json.loads makes of a number lexeme: int(lexeme) without
\* fraction and exponent (of at most MaxStrDigits digits), else
\* float(lexeme), the nearest double, held as its repr.
ParseNumber(cs) ==
    IF IntegerDigits(cs) # <<>> THEN ParseInt(SignOf(cs), IntegerDigits(cs))
    ELSE ParseFloat(SignOf(cs), Mantissa(cs), ExponentValue(ExponentPart(cs)))

\* The float json.loads makes of the constants NaN, Infinity, -Infinity.
ParseConstant(word) ==
    CASE word = "NaN" -> PyFloatSpecial("nan")
      [] word = "Infinity" -> PyFloatSpecial("inf")
      [] word = "-Infinity" -> PyFloatSpecial("-inf")

\* The deepest nesting of lists and objects json.loads decodes and
\* json.dumps encodes: the interpreter's recursion limit of 1000 less the
\* levels in use when analyze_thumbnail or synthesize_insights, called by
\* main at module level, calls them. Frames of a caller of the script lower
\* it by as many.
MaxNesting == 993

\* Levels that building the JSONDecodeError of a missing property name,
\* ":" or "," takes: the scanner raises it with the lists and objects still
\* open. ("Expecting value" and "Extra data" are raised once they are left.)
ErrorFrames == 3

\* Levels that the call of parse_constant for NaN, Infinity, -Infinity takes.
ConstantFrames == 1

\* The scanner between two tokens: status is "run" or the exception raised,
\* expect says what may come next, stack holds the open lists and objects
\* (kind, items so far, and the key waiting for its value), val the decoded
\* document once expect is "end".
ScanRaise(st, e) == [st EXCEPT !.status = e]

\* A property name, ":" or "," is missing: RecursionError when the scanner
\* cannot go ErrorFrames levels deeper than the open lists and objects.
ScanExpecting(st) ==
    ScanRaise(st, IF Len(st.stack) + ErrorFrames > MaxNesting THEN "RecursionError"
                  ELSE "JSONDecodeError")

\* A value v is complete: it is the document, or goes into the innermost
\* open list or object (d[key] = v).
ScanComplete(st, v) ==
    IF st.stack = <<>> THEN [st EXCEPT !.expect = "end", !.val = v]
    ELSE LET n == Len(st.stack)
             top == st.stack[n]
         IN [st EXCEPT !.expect = "sep",
                       !.stack[n].items = IF top.kind = "list" THEN Append(top.items, v)
                                          ELSE DictSet(top.items, top.key, v)]

\* "[" or "{": one more level of nesting.
ScanOpen(st, kind) ==
    IF Len(st.stack) + 1 > MaxNesting THEN ScanRaise(st, "RecursionError")
    ELSE [st EXCEPT !.stack = Append(@, [kind |-> kind, key |-> "", items |-> <<>>]),
                    !.expect = IF kind = "list" THEN "value or ]" ELSE "key or }"]

\* "]" or "}": the innermost list or object is complete.
ScanClose(st) ==
    LET n == Len(st.stack)
        top == st.stack[n]
    IN ScanComplete([st EXCEPT !.stack = SubSeq(st.stack, 1, n - 1)],
                    IF top.kind = "list" THEN PyList(top.items) ELSE PyDict(top.items))

\* The scanner after the token tok.
ScanToken(st, tok) ==
    IF st.status # "run" THEN st
    ELSE CASE st.expect \in {"value", "value or ]"} ->
                CASE tok.t = "string" ->
                        ScanComplete(st, [t |-> "str", s |-> tok.s, items |-> tok.items])
                  [] tok.t = "number" ->
                        LET cs == [i \in 1..Len(tok.items) |-> tok.items[i].s]
                        IN IF Len(IntegerDigits(cs)) > MaxStrDigits
                           THEN ScanRaise(st, "ValueError")
                           ELSE ScanComplete(st, ParseNumber(cs))
                  [] tok.t = "word" ->
                        IF tok.s = "null" THEN ScanComplete(st, PyNone)
                        ELSE IF tok.s \in {"true", "false"}
                             THEN ScanComplete(st, [t |-> "bool", s |-> tok.s, items |-> <<>>])
                        ELSE IF tok.s \in {"NaN", "Infinity", "-Infinity"}
                             THEN IF Len(st.stack) + ConstantFrames > MaxNesting
                                  THEN ScanRaise(st, "RecursionError")
                                  ELSE ScanComplete(st, ParseConstant(tok.s))
                        ELSE ScanRaise(st, "JSONDecodeError")
                  [] tok.t = "punct" ->
                        IF tok.s = "[" THEN ScanOpen(st, "list")
                        ELSE IF tok.s = "{" THEN ScanOpen(st, "dict")
                        ELSE IF tok.s = "]" /\ st.expect = "value or ]" THEN ScanClose(st)
                        ELSE ScanRaise(st, "JSONDecodeError")
                  [] OTHER -> ScanRaise(st, "JSONDecodeError")
           [] st.expect \in {"key", "key or }"} ->
                IF tok.t = "string"
                THEN [st EXCEPT !.expect = ":", !.stack[Len(st.stack)].key = tok.s]
                ELSE IF tok.t = "punct" /\ tok.s = "}" /\ st.expect = "key or }"
                     THEN ScanClose(st)
                ELSE ScanExpecting(st)
           [] st.expect = ":" ->
                IF tok.t = "punct" /\ tok.s = ":" THEN [st EXCEPT !.expect = "value"]
                ELSE ScanExpecting(st)
           [] st.expect = "sep" ->
                LET kind == st.stack[Len(st.stack)].kind
                IN IF tok.t # "punct" THEN ScanExpecting(st)
                   ELSE IF tok.s = ","
                        THEN [st EXCEPT !.expect = IF kind = "list" THEN "value" ELSE "key"]
                   ELSE IF tok.s = (IF kind = "list" THEN "]" ELSE "}") THEN ScanClose(st)
                   ELSE ScanExpecting(st)
           [] st.expect = "end" -> ScanRaise(st, "JSONDecodeError")

\* The scanner after the tokens ts[lo..hi], by halving the range; nothing is
\* read once an exception was raised.
RECURSIVE ScanTokens(_, _, _, _)
ScanTokens(st, ts, lo, hi) ==
    IF st.status # "run" \/ lo > hi THEN st
    ELSE IF lo = hi THEN ScanToken(st, ts[lo])
    ELSE LET mid == (lo + hi) \div 2
         IN ScanTokens(ScanTokens(st, ts, lo, mid), ts, mid + 1, hi)

\* What json.loads does with a value that is None instead of a text.
NoneText == <<PyNone>>

\* What json.loads gives when the scanner has read the whole text: at the
\* end of the text a value, or a property name, ":" or "," is missing.
LoadsResult(st) ==
    IF st.status # "run" THEN [ok |-> FALSE, val |-> PyNone, err |-> st.status]
    ELSE IF st.expect = "end" THEN [ok |-> TRUE, val |-> st.val, err |-> "none"]
    ELSE IF st.expect \in {"value", "value or ]"}
         THEN [ok |-> FALSE, val |-> PyNone, err |-> "JSONDecodeError"]
    ELSE [ok |-> FALSE, val |-> PyNone, err |-> ScanExpecting(st).status]

\* json.loads(text): the decoded value, or the exception raised in err:
\* TypeError for None, JSONDecodeError for a text that is not one JSON
\* document, ValueError for an int of too many digits, RecursionError for a
\* nesting too deep; the first in the text wins.

JsonLoads(text) ==
    IF text = NoneText THEN [ok |-> FALSE, val |-> PyNone, err |-> "TypeError"]
    ELSE LoadsResult(ScanTokens([status |-> "run", expect |-> "value", stack |-> <<>>,
                                 val |-> PyNone],
                                text, 1, Len(text)))

\* ---------------------------------------------------------------- json.dumps
\* The token of a value that is no list and no object.
DumpsScalar(v) ==
    CASE v.t = "str" -> [t |-> "string", s |-> v.s, items |-> v.items]
      [] v.t = "float" /\ v.s = "nan" -> [t |-> "word", s |-> "NaN", items |-> <<>>]
      [] v.t = "float" /\ v.s = "inf" -> [t |-> "word", s |-> "Infinity", items |-> <<>>]
      [] v.t = "float" /\ v.s = "-inf" -> [t |-> "word", s |-> "-Infinity", items |-> <<>>]
      [] v.t = "None" -> [t |-> "word", s |-> "null", items |-> <<>>]
      [] v.t = "bool" -> [t |-> "word", s |-> v.s, items |-> <<>>]
      [] OTHER -> [t |-> "number", s |-> "", items |-> v.items]

\* What precedes item i of a list or object: the separator, and in an
\* object the key and ":".
DumpsLead(top) ==
    (IF top.i > 1 THEN <<[t |-> "punct", s |-> ",", items |-> <<>>]>> ELSE <<>>)
    \o (IF top.kind = "dict"
        THEN <<[t |-> "string", s |-> top.items[top.i].s, items |-> <<>>],
               [t |-> "punct", s |-> ":", items |-> <<>>]>>
        ELSE <<>>)

\* The encoder between two steps is a record st: status is "run", "done" or
\* the exception raised, stack holds the lists and objects being written
\* (kind, items, and the index i of the next item; the value itself lies in
\* a frame of kind "top"), out the tokens written so far.
\* It writes the value v, item i of the innermost frame (the n-th): a list
\* or object is entered, one more level of nesting; str(int) of more than
\* MaxStrDigits digits raises ValueError.
DumpsValue(st, n, lead, v) ==
    IF v.t \in {"list", "dict"}
    THEN IF n > MaxNesting THEN [st EXCEPT !.status = "RecursionError"]
         ELSE [st EXCEPT
                 !.stack = Append([st.stack EXCEPT ![n].i = @ + 1],
                                  [kind |-> v.t, items |-> v.items, i |-> 1]),
                 !.out = @ \o lead \o
                         <<[t |-> "punct", s |-> IF v.t = "list" THEN "[" ELSE "{",
                            items |-> <<>>]>>]
    ELSE IF /\ v.t = "int"
            /\ Len(v.items) - (IF v.items[1].s = "-" THEN 1 ELSE 0) > MaxStrDigits
         THEN [st EXCEPT !.status = "ValueError"]
    ELSE [st EXCEPT !.stack[n].i = @ + 1, !.out = @ \o lead \o <<DumpsScalar(v)>>]

\* One step of the encoder on its innermost frame top, the n-th: the next
\* item, or the end of the list or object.
DumpsFrame(st, n, top) ==
    IF top.i <= Len(top.items)
    THEN DumpsValue(st, n, DumpsLead(top),
                    IF top.kind = "dict" THEN top.items[top.i].items[1]
                    ELSE top.items[top.i])
    ELSE IF top.kind = "top" THEN [st EXCEPT !.status = "done"]
    ELSE [st EXCEPT
            !.stack = SubSeq(@, 1, n - 1),
            !.out = Append(@, [t |-> "punct", s |-> IF top.kind = "list" THEN "]" ELSE "}",
                               items |-> <<>>])]

\* 2^k steps of the encoder, fewer when it ends before.
RECURSIVE DumpsSteps(_, _)
DumpsSteps(st, k) ==
    IF st.status # "run" THEN st
    ELSE IF k = 0 THEN DumpsFrame(st, Len(st.stack), st.stack[Len(st.stack)])
    ELSE DumpsSteps(DumpsSteps(st, k - 1), k - 1)

\* The encoder run to its end.
RECURSIVE DumpsRun(_, _)
DumpsRun(st, k) ==
    IF st.status # "run" THEN st ELSE DumpsRun(DumpsSteps(st, k), k + 1)

\* json.dumps(v): the text, or the exception raised in err: RecursionError
\* for a nesting too deep, ValueError for an int of too many digits.
JsonDumps(v) ==
    LET end == DumpsRun([status |-> "run",
                         stack |-> <<[kind |-> "top", items |-> <<v>>, i |-> 1]>>,
                         out |-> <<>>], 0)
    IN IF end.status = "done" THEN [ok |-> TRUE, text |-> end.out, err |-> "none"]
       ELSE [ok |-> FALSE, text |-> <<>>, err |-> end.status]

\* --------------------------------------------------- the completion endpoint
\* What client.chat.completions.create / client.images.generate can do:
\* raise a transport error, or return a response carrying a text.
Response(text) == [err |-> FALSE, text |-> text]
TransportError == [err |-> TRUE, text |-> <<>>]

LB == TokP("{")
RB == TokP("}")
LS == TokP("[")
RS == TokP("]")
CM == TokP(",")
CL == TokP(":")

\* {"patterns":["bold text"],"psychology":["urgency"],"pros":["clear"],"cons":["busy"]}
TextFull ==
    <<LB, TokS("patterns"), CL, LS, TokS("bold text"), RS, CM,
          TokS("psychology"), CL, LS, TokS("urgency"), RS, CM,
          TokS("pros"), CL, LS, TokS("clear"), RS, CM,
          TokS("cons"), CL, LS, TokS("busy"), RS, RB>>
\* {"patterns":["bold text"]}
TextPartial == <<LB, TokS("patterns"), CL, LS, TokS("bold text"), RS, RB>>
\* Sorry
TextNotJson == <<TokW("Sorry")>>
\* Here {"patterns":["bold text"]} done
TextWrapped == <<TokW("Here")>> \o TextPartial \o <<TokW("done")>>
\* {"patterns":["bold text",],}
TextTrailingComma == <<LB, TokS("patterns"), CL, LS, TokS("bold text"), CM, RS, CM, RB>>
\* ["bold text"]
TextList == <<LS, TokS("bold text"), RS>>
\* {"patterns":1}
TextIntValue == <<LB, TokS("patterns"), CL, TokN(<<"1">>), RB>>
\* NaN
TextNaN == <<TokW("NaN")>>
\* {"patterns":[1e2,NaN]}
TextFloatValue == <<LB, TokS("patterns"), CL, LS, TokN(<<"1", "e", "2">>), CM, TokW("NaN"), RS, RB>>
\* {"common_patterns":["bold text"],"common_psychology":["urgency"],"wireframe_prompt":"draw"}
TextSynthesis ==
    <<LB, TokS("common_patterns"), CL, LS, TokS("bold text"), RS, CM,
          TokS("common_psychology"), CL, LS, TokS("urgency"), RS, CM,
          TokS("wireframe_prompt"), CL, TokS("draw"), RB>>
\* {"wireframe_prompt":""}
TextEmptyPrompt == <<LB, TokS("wireframe_prompt"), CL, TokS(""), RB>>
\* {"common_patterns":1,"wireframe_prompt":"draw"}
TextIntSummary ==
    <<LB, TokS("common_patterns"), CL, TokN(<<"1">>), CM,
          TokS("wireframe_prompt"), CL, TokS("draw"), RB>>

\* [0.10000000000000001,1e400,-0]
TextRounded ==
    <<LS, TokN(<<"0", ".", "1", "0", "0", "0", "0", "0", "0", "0", "0", "0", "0", "0",
                 "0", "0", "0", "0", "1">>), CM,
          TokN(<<"1", "e", "4", "0", "0">>), CM, TokN(<<"-", "0">>), RS>>
\* an int of MaxStrDigits + 1 digits, followed by the word x
TextHugeInt == <<TokN([i \in 1..(MaxStrDigits + 1) |-> "1"]), TokW("x")>>
\* MaxNesting + 1 times "[", then the word x
TextDeep == [i \in 1..(MaxNesting + 1) |-> LS] \o <<TokW("x")>>
\* {"patterns":{"k":[[...]]}}, MaxNesting lists and objects deep
TextNested ==
    <<LB, TokS("patterns"), CL, LB, TokS("k"), CL>>
    \o [i \in 1..(MaxNesting - 2) |-> LS] \o [i \in 1..(MaxNesting - 2) |-> RS]
    \o <<RB, RB>>
\* MaxNesting - ErrorFrames + 1 times "[", then 1 and the word x
TextDeepError ==
    [i \in 1..(MaxNesting - ErrorFrames + 1) |-> LS] \o <<TokN(<<"1">>), TokW("x")>>

Texts ==
    {TextFull, TextPartial, TextNotJson, TextWrapped, TextTrailingComma, TextList,
     TextIntValue, TextNaN, TextFloatValue, TextSynthesis, TextEmptyPrompt,
     TextIntSummary, TextRounded, TextHugeInt, TextDeep, TextNested, TextDeepError}

\* Response(NoneText): a response whose message.content is None.
Responses == {Response(x) : x \in Texts} \cup {Response(NoneText), TransportError}

\* The endpoint behaviours drawn in a session: for an analysis call, and for
\* a synthesis call.
AnalysisResponses ==
    {Response(x) : x \in {TextNotJson, TextList, TextNested}} \cup {TransportError}
SynthesisResponses ==
    {Response(x) : x \in {TextSynthesis, TextFull, TextList}} \cup {TransportError}

\* ------------------------------------------------ the image-generation endpoint
\* A response of client.images.generate: its text is resp.data, the sequence
\* of the b64_json fields (None in a url-type response).
\* A 1x1 PNG, the five bytes "hello", and a string of wrong length.
PngB64 ==
    "iVBORw0KGgoAAAANSUhEUgAAAAEAAAABCAYAAAAfFcSJAAAADUlEQVR42mNkYPhfDwAChwGA60e6kgAAAABJRU5ErkJggg=="
TextB64 == "aGVsbG8="
BadB64 == "a"

ImageOk == Response(<<PyStr(PngB64)>>)
ImageUrlOnly == Response(<<PyNone>>)

AllImageResponses ==
    {ImageOk, ImageUrlOnly, Response(<<PyStr(TextB64)>>), Response(<<PyStr(BadB64)>>),
     Response(<<>>), TransportError}

\* Those drawn in a session.
ImageResponses == {ImageOk, ImageUrlOnly, TransportError}

\* ------------------------------------------------------------- the pipeline
Returned(v) == [raised |-> "none", value |-> v]
Raised(e) == [raised |-> e, value |-> PyNone]

\* Mutant of GetOpenAIClient: a client is built even when no key was found.
GetOpenAIClientNoCheck(secretKey, envKey, sidebarKey) ==
    IF secretKey # "" THEN secretKey
    ELSE IF envKey # "" THEN envKey
    ELSE IF sidebarKey # "" THEN sidebarKey
    ELSE "unset"

\* get_openai_client: the first non-empty key of secrets, environment, sidebar;
\* "" stands for None (no client).
GetOpenAIClient(secretKey, envKey, sidebarKey) ==
    LET key == IF secretKey # "" THEN secretKey ELSE envKey
        key2 == IF key = "" THEN sidebarKey ELSE key
    IN key2

\* The except-branch result of analyze_thumbnail.
DefaultAnalysis ==
    PyDict(<<PyItem("patterns", PyList(<<>>)), PyItem("psychology", PyList(<<>>)),
             PyItem("pros", PyList(<<>>)), PyItem("cons", PyList(<<>>))>>)

\* The try-branch result: every key read with parsed.get(key, []).
EnsureKeys(parsed) ==
    PyDict(<<PyItem("patterns", DictGet(parsed, "patterns", PyList(<<>>))),
             PyItem("psychology", DictGet(parsed, "psychology", PyList(<<>>))),
             PyItem("pros", DictGet(parsed, "pros", PyList(<<>>))),
             PyItem("cons", DictGet(parsed, "cons", PyList(<<>>)))>>)

\* analyze_thumbnail(client, b64str, name), given what the endpoint does:
\* only json.JSONDecodeError is caught (line 59).
AnalysisOf(parsed) ==
    IF parsed.err = "JSONDecodeError" THEN Returned(DefaultAnalysis)
    ELSE IF ~parsed.ok THEN Raised(parsed.err)
    ELSE IF parsed.val.t # "dict" THEN Raised("AttributeError")
    ELSE Returned(EnsureKeys(parsed.val))

AnalyzeThumbnail(resp) ==
    IF resp.err THEN Raised("APIError") ELSE AnalysisOf(JsonLoads(resp.text))

\* Mutant of Subset: analyses[:5], the first K entries.
SubsetFirst(analyses) ==
    IF Len(analyses) <= K THEN analyses ELSE SubSeq(analyses, 1, K)

\* subset = analyses[-5:]
Subset(analyses) ==
    IF Len(analyses) <= K THEN analyses
    ELSE SubSeq(analyses, Len(analyses) - K + 1, Len(analyses))

\* The except-branch result of synthesize_insights.
SynthesisFallback(text) ==
    PyDict(<<PyItem("common_patterns", PyList(<<>>)),
             PyItem("common_psychology", PyList(<<>>)),
             PyItem("wireframe_prompt", PyRawStr(text))>>)

\* synthesize_insights lines 79-98: what it returns or raises, given what the
\* endpoint does: only json.JSONDecodeError is caught (line 92).
SynthesisOf(parsed, text) ==
    IF parsed.ok THEN Returned(parsed.val)
    ELSE IF parsed.err = "JSONDecodeError" THEN Returned(SynthesisFallback(text))
    ELSE Raised(parsed.err)

SynthesisResult(resp) ==
    IF resp.err THEN Raised("APIError")
    ELSE SynthesisOf(JsonLoads(resp.text), resp.text)

\* synthesize_insights after line 85: an exception of json.dumps leaves it
\* before the request; else the request carries the payload and the outcome
\* is that of lines 79-98. sent counts the completion requests.
SynthesisOutcome(dumped, result) ==
    IF dumped.ok THEN [sent |-> 1, payload |-> dumped.text, out |-> result]
    ELSE [sent |-> 0, payload |-> <<>>, out |-> Raised(dumped.err)]

\* The function f as a table of its values: each is computed once, not at
\* every application.
Tabulated(f) == f @@ <<>>

\* The analyses of the records of a session and of the function-level runs.
\* A state holds an analysis by its name, as the list of line 158 holds a
\* reference to it.
AnalysisNames == {"default", "full", "nested"}
AnalysisNamed ==
    Tabulated([n \in AnalysisNames |->
        CASE n = "default" -> DefaultAnalysis
          [] n = "full" -> EnsureKeys(JsonLoads(TextFull).val)
          [] n = "nested" -> EnsureKeys(JsonLoads(TextNested).val)])

ValuesOf(names) == [i \in 1..Len(names) |-> AnalysisNamed[names[i]]]

BoundedSeq(S, n) == UNION {[1..m -> S] : m \in 0..n}

\* analyze_thumbnail and lines 89-98 of synthesize_insights on the endpoint
\* behaviours, json.dumps(subset) of line 85 on the subsets that occur.
AnalyzeThumbnailOn == Tabulated([r \in AnalysisResponses |-> AnalyzeThumbnail(r)])
SynthesisResultOn == Tabulated([r \in Responses |-> SynthesisResult(r)])
SynthesisPayloadOn ==
    Tabulated([s \in BoundedSeq(AnalysisNames, K) |-> JsonDumps(PyList(ValuesOf(s)))])

\* synthesize_insights(client, analyses), the analyses given by name:
\* subset = analyses[-5:], json.dumps(subset), the request and its outcome.
SynthesizeInsights(resp, analyses) ==
    SynthesisOutcome(SynthesisPayloadOn[Subset(analyses)], SynthesisResultOn[resp])

\* "for p in x": str, list and dict can be iterated, int and None cannot.
Iterable(v) == v.t \in {"str", "list", "dict"}

\* ", ".join(x): x must be iterable and yield only str (a dict yields its keys).
Joinable(v) ==
    \/ v.t \in {"str", "dict"}
    \/ v.t = "list" /\ \A i \in 1..Len(v.items) : v.items[i].t = "str"

\* main, "1. Individual Analyses": the four joins of every record.
RenderAnalyses(d) ==
    IF \A i \in 1..Len(d) : \A j \in 1..4 :
          Joinable(AnalysisNamed[d[i].analysis].items[j].items[1])
    THEN "none" ELSE "TypeError"

\* main, "2. Common Insights": result.get(...) and the two for loops.
RenderInsights(result) ==
    IF result.t # "dict" THEN "AttributeError"
    ELSE IF /\ Iterable(DictGet(result, "common_patterns", PyList(<<>>)))
            /\ Iterable(DictGet(result, "common_psychology", PyList(<<>>)))
         THEN "none" ELSE "TypeError"

\* generate_wireframe lines 108-109: resp.data[0].b64_json, base64.b64decode
\* and Image.open, tabulated for the payloads above.
DecodeImage(d) ==
    IF d = <<>> THEN "IndexError"
    ELSE IF d[1].t # "str" THEN "TypeError"
    ELSE CASE d[1].s = PngB64 -> "none"
           [] d[1].s = TextB64 -> "UnidentifiedImageError"
           [] d[1].s = BadB64 -> "binascii.Error"

\* generate_wireframe(client, prompt): the request is issued whatever the
\* prompt; a transport error propagates, and so does a failure to decode or
\* open what came back.
GenerateWireframe(prompt, resp) ==
    [called |-> TRUE, prompt |-> prompt,
     raised |-> IF resp.err THEN "APIError" ELSE DecodeImage(resp.text)]

\* ------------------------------------------------------- the session (main)
\* Files the user can put into the uploader: two of one name and different
\* byte lengths, one of another name.
Files ==
    {[name |-> "a.png", raw |-> <<137>>],
     [name |-> "a.png", raw |-> <<137, 80>>],
     [name |-> "b.png", raw |-> <<137>>]}

Keys == {"", "sk"}

VARIABLES
    secrets,    \* st.secrets.get("OPENAI_API_KEY"), "" when unset
    environ,    \* os.environ.get("OPENAI_API_KEY"), "" when unset
    sidebar,    \* the value of the sidebar text input
    hasData,    \* "data" in st.session_state
    data,       \* st.session_state.data
    uploads,    \* what st.file_uploader returns
    pc,         \* position of the running script: "idle", "analyze", "generate"
    new,        \* main's list new, while the batch loop runs
    idx,        \* index in new of the next image of the loop
    press,      \* the button of the current (or last) run: "none", "analyze", "synth"
    compCalls,  \* completion requests issued by the current (or last) run
    imgCalls,   \* image-generation requests issued by the current (or last) run
    imgPrompt,  \* the prompt of that image-generation request
    result,     \* main's result, once synthesize_insights has returned
    raised,     \* the exception that ended the current (or last) run, or "none"
    fnPc,       \* function-level runs: "off", "ready", "analyzed", "synthesized", "generated"
    fnResp,     \* the endpoint's behaviour in the function-level run
    fnAnalyses, \* the analyses argument of synthesize_insights
    fnOut,      \* what the function returned or raised
    fnCalls,    \* requests the function issued
    fnPayload   \* the serialized payload synthesize_insights sent

sessionVars ==
    <<secrets, environ, sidebar, hasData, data, uploads, pc, new, idx, press,
      compCalls, imgCalls, imgPrompt, result, raised>>
fnVars == <<fnPc, fnResp, fnAnalyses, fnOut, fnCalls, fnPayload>>
vars == <<sessionVars, fnVars>>

Client == GetOpenAIClient(secrets, environ, sidebar)

\* main lines 130-134: the uploads whose (name, len(raw)) no record of d has.
NewUploads(ups, d) ==
    SelectSeq(ups, LAMBDA f :
        ~(\E i \in 1..Len(d) : d[i].name = f.name /\ d[i].size = Len(f.raw)))

\* Mutant of AppendRecord: the record is inserted at the front.
PrependRecord(d, name, raw, analysis) ==
    <<[name |-> name, size |-> Len(raw), analysis |-> analysis]>> \o d

\* main lines 139-143: st.session_state.data.append({...})
AppendRecord(d, name, raw, analysis) ==
    Append(d, [name |-> name, size |-> Len(raw), analysis |-> analysis])

\* Mutant of CanSynthesize: the button is shown whatever the collection holds.
CanSynthesizeAlways(d) == TRUE

\* main line 146: if st.session_state.data
CanSynthesize(d) == d # <<>>

FnOff ==
    /\ fnPc = "off"
    /\ fnResp = TransportError
    /\ fnAnalyses = <<>>
    /\ fnOut = Raised("none")
    /\ fnCalls = 0
    /\ fnPayload = <<>>

\* The state after the first run of the script in a new session.
SessionInit ==
    /\ sidebar = ""
    /\ hasData = (GetOpenAIClient(secrets, environ, "") # "")
    /\ data = <<>>
    /\ uploads = <<>>
    /\ pc = "idle"
    /\ new = <<>>
    /\ idx = 0
    /\ press = "none"
    /\ compCalls = 0
    /\ imgCalls = 0
    /\ imgPrompt = PyNone
    /\ result = PyNone
    /\ raised = "none"

Init ==
    /\ \E p \in {<<"", "">>, <<"sk", "">>, <<"", "sk">>} :
          secrets = p[1] /\ environ = p[2]
    /\ SessionInit
    /\ FnOff

\* A run of the script with no button pressed, after a widget changed:
\* lines 121-126 and the rendering of lines 146-154.
Rerun(client) ==
    /\ hasData' = (hasData \/ client # "")
    /\ raised' = IF client = "" THEN "none" ELSE RenderAnalyses(data)
    /\ pc' = "idle"
    /\ new' = <<>>
    /\ idx' = 0
    /\ press' = "none"
    /\ compCalls' = 0
    /\ imgCalls' = 0
    /\ imgPrompt' = PyNone
    /\ result' = PyNone
    /\ UNCHANGED <<secrets, environ, data, fnVars>>

\* The user edits the sidebar key (shown only when secrets and environment
\* give none, lines 12-14).
TypeKey(k) ==
    /\ pc = "idle"
    /\ secrets = "" /\ environ = ""
    /\ k # sidebar
    /\ sidebar' = k
    /\ Rerun(GetOpenAIClient(secrets, environ, k))
    /\ UNCHANGED uploads

\* The user adds a file to the uploader (line 128; the same file may be
\* added twice).
AddUpload(f) ==
    /\ pc = "idle"
    /\ Client # ""
    /\ Len(uploads) < MaxUploads
    /\ uploads' = Append(uploads, f)
    /\ Rerun(Client)
    /\ UNCHANGED sidebar

\* The user removes a file from the uploader.
RemoveUpload(i) ==
    /\ pc = "idle"
    /\ Client # ""
    /\ i \in 1..Len(uploads)
    /\ uploads' = SubSeq(uploads, 1, i - 1) \o SubSeq(uploads, i + 1, Len(uploads))
    /\ Rerun(Client)
    /\ UNCHANGED sidebar

\* The user presses "Analyze N New" (lines 129-136): the run computes new
\* and enters the loop.
ClickAnalyze ==
    /\ pc = "idle"
    /\ Client # ""
    /\ uploads # <<>>
    /\ NewUploads(uploads, data) # <<>>
    /\ Len(data) + Len(NewUploads(uploads, data)) <= MaxData
    /\ pc' = "analyze"
    /\ new' = NewUploads(uploads, data)
    /\ idx' = 1
    /\ press' = "analyze"
    /\ compCalls' = 0
    /\ imgCalls' = 0
    /\ imgPrompt' = PyNone
    /\ result' = PyNone
    /\ raised' = "none"
    /\ hasData' = TRUE
    /\ UNCHANGED <<secrets, environ, sidebar, data, uploads, fnVars>>

\* One iteration of the loop of lines 137-143; after the last one the run
\* goes on to line 144 and the rendering of lines 146-154. An exception of
\* analyze_thumbnail ends the run.
AnalyzeStep(resp) ==
    /\ pc = "analyze"
    /\ LET out == AnalyzeThumbnailOn[resp]
           d2 == AppendRecord(data, new[idx].name, new[idx].raw,
                              CHOOSE n \in AnalysisNames : AnalysisNamed[n] = out.value)
       IN IF out.raised # "none"
          THEN /\ raised' = out.raised
               /\ pc' = "idle"
               /\ UNCHANGED <<data, idx>>
          ELSE /\ data' = d2
               /\ idx' = idx + 1
               /\ pc' = IF idx = Len(new) THEN "idle" ELSE "analyze"
               /\ raised' = IF idx = Len(new) THEN RenderAnalyses(d2) ELSE "none"
    /\ compCalls' = compCalls + 1
    /\ UNCHANGED <<secrets, environ, sidebar, hasData, uploads, new, press,
                   imgCalls, imgPrompt, result, fnVars>>

\* The user presses "2. Synthesize & Generate Wireframe" (lines 156-167):
\* the button exists when the collection is non-empty and lines 147-154
\* rendered it; the run calls synthesize_insights and shows the insights.
\* The request, when json.dumps lets it be sent, carries the payload of the
\* records' analyses in collection order; the session keeps the outcome.
ClickSynthesize(resp) ==
    /\ pc = "idle"
    /\ Client # ""
    /\ hasData
    /\ CanSynthesize(data)
    /\ RenderAnalyses(data) = "none"
    /\ LET r == SynthesizeInsights(resp, [i \in 1..Len(data) |-> data[i].analysis])
           shown == IF r.out.raised # "none" THEN r.out.raised
                    ELSE RenderInsights(r.out.value)
       IN /\ result' = r.out.value
          /\ raised' = shown
          /\ pc' = IF shown = "none" THEN "generate" ELSE "idle"
          /\ compCalls' = r.sent
    /\ press' = "synth"
    /\ imgCalls' = 0
    /\ imgPrompt' = PyNone
    /\ new' = <<>>
    /\ idx' = 0
    /\ UNCHANGED <<secrets, environ, sidebar, hasData, data, uploads, fnVars>>

\* Lines 169-172 of the same run: generate_wireframe and the display.
GenerateStep(resp) ==
    /\ pc = "generate"
    /\ LET out == GenerateWireframe(DictGet(result, "wireframe_prompt", PyStr("")), resp)
       IN /\ imgCalls' = IF out.called THEN imgCalls + 1 ELSE imgCalls
          /\ imgPrompt' = IF out.called THEN out.prompt ELSE imgPrompt
          /\ raised' = out.raised
    /\ pc' = "idle"
    /\ UNCHANGED <<secrets, environ, sidebar, hasData, data, uploads, new, idx,
                   press, compCalls, result, fnVars>>

Next ==
    \/ \E k \in Keys : TypeKey(k)
    \/ \E f \in Files : AddUpload(f)
    \/ \E i \in 1..MaxUploads + 1 : RemoveUpload(i)
    \/ ClickAnalyze
    \/ \E resp \in AnalysisResponses : AnalyzeStep(resp)
    \/ \E resp \in SynthesisResponses : ClickSynthesize(resp)
    \/ \E resp \in ImageResponses : GenerateStep(resp)

Spec == Init /\ [][Next]_vars

\* --------------------------------------------- the functions on their own
\* analyze_thumbnail and generate_wireframe applied to every endpoint
\* behaviour, synthesize_insights to every endpoint behaviour and every list
\* of at most MaxAnalyses analyses.
InitFn ==
    /\ secrets = ""
    /\ environ = ""
    /\ SessionInit
    /\ fnPc = "ready"
    /\ fnResp \in Responses \cup AllImageResponses
    /\ fnAnalyses = <<>>
    /\ fnOut = Raised("none")
    /\ fnCalls = 0
    /\ fnPayload = <<>>

FnAnalyze ==
    /\ fnPc = "ready"
    /\ fnResp \in Responses
    /\ fnOut' = AnalyzeThumbnail(fnResp)
    /\ fnCalls' = 1
    /\ fnPc' = "analyzed"
    /\ UNCHANGED <<sessionVars, fnResp, fnAnalyses, fnPayload>>

FnGenerate(prompt) ==
    /\ fnPc = "ready"
    /\ fnResp \in AllImageResponses
    /\ LET r == GenerateWireframe(prompt, fnResp)
       IN fnOut' = [raised |-> r.raised, value |-> r.prompt]
    /\ fnCalls' = 1
    /\ fnPc' = "generated"
    /\ UNCHANGED <<sessionVars, fnResp, fnAnalyses, fnPayload>>

FnSynthesize(analyses) ==
    /\ fnPc = "ready"
    /\ fnResp \in Responses
    /\ fnAnalyses' = analyses
    /\ LET r == SynthesizeInsights(fnResp, analyses)
       IN /\ fnOut' = r.out
          /\ fnCalls' = r.sent
          /\ fnPayload' = r.payload
    /\ fnPc' = "synthesized"
    /\ UNCHANGED <<sessionVars, fnResp>>

NextFn ==
    \/ FnAnalyze
    \/ \E prompt \in {PyStr(""), PyStr("draw")} : FnGenerate(prompt)
    \/ \E analyses \in BoundedSeq(AnalysisNames, MaxAnalyses) : FnSynthesize(analyses)

SpecFn == InitFn /\ [][NextFn]_vars

\* ------------------------------------------------------------------ claims
IsPrefix(a, b) == Len(a) <= Len(b) /\ SubSeq(b, 1, Len(a)) = a

Known(d, f) == \E i \in 1..Len(d) : d[i].name = f.name /\ d[i].size = Len(f.raw)

NoKey == secrets = "" /\ environ = "" /\ sidebar = ""

\* C1: the collection never holds two records with the same (name, size)
\* pair, and an upload whose pair already has a record is not sent to
\* analyze_thumbnail again.
C1_NoDuplicateRecords ==
    /\ \A i, j \in 1..Len(data) :
          i # j => <<data[i].name, data[i].size>> # <<data[j].name, data[j].size>>
    /\ pc = "analyze" => ~Known(data, new[idx])

\* C2: the image-generation endpoint is never called with an empty prompt.
C2_NoEmptyPromptRequest == imgCalls > 0 => imgPrompt # PyStr("")

\* C3: for every response text, analyze_thumbnail returns without raising
\* and the result has the four keys patterns, psychology, pros, cons.
C3_AnalyzeNeverRaises ==
    (fnPc = "analyzed" /\ ~fnResp.err) =>
        /\ fnOut.raised = "none"
        /\ fnOut.value.t = "dict"
        /\ \A k \in {"patterns", "psychology", "pros", "cons"} :
              \E i \in 1..Len(fnOut.value.items) : fnOut.value.items[i].s = k

\* C4: a response that wraps a valid JSON object in extra text (the object
\* starting at the first "{" of the text) yields that object's values, not
\* the defaults.
C4_WrappedObjectRecovered ==
    (fnPc = "analyzed" /\ ~fnResp.err) =>
        \A i \in 1..Len(fnResp.text) :
            (fnResp.text[i] = LB /\ \A n \in 1..(i - 1) : fnResp.text[n] # LB) =>
                \A j \in i..Len(fnResp.text) :
                    \A inner \in {JsonLoads(SubSeq(fnResp.text, i, j))} :
                        (/\ j - i + 1 < Len(fnResp.text)
                         /\ inner.ok
                         /\ inner.val.t = "dict")
                        => fnOut = Returned(EnsureKeys(inner.val))

\* synthesize_insights was given a response text that json.loads does not
\* decode.
SynthesisUnparsed ==
    /\ fnPc = "synthesized"
    /\ fnCalls = 1
    /\ ~fnResp.err
    /\ fnResp.text # NoneText
    /\ ~JsonLoads(fnResp.text).ok

\* C5: when the synthesis response fails to parse, the result is not lost:
\* synthesize_insights returns, and the summary fields and the generation
\* prompt are all set to the raw response text.
C5_FallbackAllRawText ==
    SynthesisUnparsed =>
        /\ fnOut.raised = "none"
        /\ DictGet(fnOut.value, "common_patterns", PyNone) = PyRawStr(fnResp.text)
        /\ DictGet(fnOut.value, "common_psychology", PyNone) = PyRawStr(fnResp.text)
        /\ DictGet(fnOut.value, "wireframe_prompt", PyNone) = PyRawStr(fnResp.text)

\* The last 5 of the analyses, all of them when there are no more.
LastFive(analyses) ==
    IF Len(analyses) <= 5 THEN analyses
    ELSE SubSeq(analyses, Len(analyses) - 4, Len(analyses))

\* C6: the payload synthesize_insights sends depends only on the last 5
\* analyses: every collection of the same length that differs only before
\* the last 5 gives the identical payload, and with 5 or fewer analyses the
\* payload reads back as all of them, in order.
C6_PayloadDependsOnLastFive ==
    fnPc = "synthesized" =>
        /\ JsonLoads(fnPayload) =
              [ok |-> TRUE, val |-> PyList(ValuesOf(LastFive(fnAnalyses))), err |-> "none"]
        /\ \A before \in [1..(Len(fnAnalyses) - 5) -> AnalysisNames] :
              SynthesizeInsights(fnResp, before \o LastFive(fnAnalyses)).payload
              = fnPayload

\* C6, amended: whether synthesize_insights sends a request, and the payload
\* it sends, depend only on the last 5 analyses. When json.dumps encodes
\* them the payload reads back as the last 5 (all, when there are no more),
\* in order; when they are nested too deep for it the call raises
\* RecursionError and sends nothing. Every collection of the same length
\* that differs only before the last 5 does the same.
C6_RequestDependsOnLastFive ==
    fnPc = "synthesized" =>
        /\ fnCalls = (IF SynthesisPayloadOn[LastFive(fnAnalyses)].ok THEN 1 ELSE 0)
        /\ fnCalls = 1 =>
              JsonLoads(fnPayload) =
                 [ok |-> TRUE, val |-> PyList(ValuesOf(LastFive(fnAnalyses))), err |-> "none"]
        /\ fnCalls = 0 => fnOut = Raised("RecursionError") /\ fnPayload = <<>>
        /\ \A before \in [1..(Len(fnAnalyses) - 5) -> AnalysisNames] :
              \A other \in {SynthesizeInsights(fnResp, before \o LastFive(fnAnalyses))} :
                 other.sent = fnCalls /\ other.payload = fnPayload

C6_Witness ==
    /\ fnPc = "synthesized"
    /\ Len(fnAnalyses) > 5
    /\ fnAnalyses[1] # fnAnalyses[Len(fnAnalyses)]
    /\ fnAnalyses[1] \notin {fnAnalyses[i] : i \in 2..Len(fnAnalyses)}
    /\ fnCalls = 1
    /\ fnPayload # <<>>

\* C7: a failure while analysing an image does not stop the batch loop:
\* when the run has ended every image of the batch was sent to
\* analyze_thumbnail, and every image other than the failed one (idx, where
\* an exception left the loop) has its record in the collection.
C7_BatchContinuesAfterFailure ==
    (press = "analyze" /\ pc = "idle") =>
        /\ compCalls = Len(new)
        /\ \A j \in 1..Len(new) : j # idx => Known(data, new[j])

\* C8: a run that finds no key in secrets, environment or sidebar returns at
\* once: it issues no request and leaves the session collection as it was.
C8_NoPipelineWithoutKey ==
    [][(secrets' = "" /\ environ' = "" /\ sidebar' = "") =>
          /\ data' = data
          /\ hasData' = hasData
          /\ pc' = "idle"
          /\ compCalls' = 0
          /\ imgCalls' = 0]_vars

C8_Witness == NoKey /\ hasData /\ data # <<>> /\ uploads # <<>>

\* C9: synthesize_insights is called only on a non-empty collection,
\* generate_wireframe only after synthesize_insights returned in the same
\* run, and a press of the synthesis button issues exactly one completion
\* request and at most one image-generation request.
C9_StageOrder ==
    /\ press = "synth" => Len(data) >= 1 /\ compCalls = 1 /\ imgCalls <= 1
    /\ pc = "generate" =>
          press = "synth" /\ raised = "none" /\ result.t = "dict" /\ imgCalls = 0
    /\ imgCalls > 0 => press = "synth" /\ compCalls = 1 /\ result.t = "dict"
    /\ press # "synth" => imgCalls = 0 /\ result = PyNone

\* C9, amended: synthesize_insights is called only on a non-empty
\* collection, generate_wireframe only after synthesize_insights returned in
\* the same run, and a press of the synthesis button issues at most one
\* completion request and at most one image-generation request: exactly one
\* completion request when json.dumps encodes the analyses, and none, the
\* run ending with RecursionError before any request, when they are nested
\* too deep for it.
C9_StageOrderOneRequestAtMost ==
    /\ press = "synth" =>
          /\ Len(data) >= 1
          /\ imgCalls <= 1
          /\ compCalls = (IF SynthesisPayloadOn[LastFive([i \in 1..Len(data) |-> data[i].analysis])].ok THEN 1 ELSE 0)
          /\ compCalls = 0 =>
                raised = "RecursionError" /\ pc = "idle" /\ imgCalls = 0 /\ result = PyNone
    /\ pc = "generate" =>
          /\ press = "synth" /\ compCalls = 1
          /\ raised = "none" /\ result.t = "dict" /\ imgCalls = 0
    /\ imgCalls > 0 => press = "synth" /\ compCalls = 1 /\ result.t = "dict"
    /\ press # "synth" => imgCalls = 0 /\ result = PyNone

C9_Witness ==
    /\ press = "synth" /\ pc = "idle"
    /\ compCalls = 0 /\ raised = "RecursionError"
    /\ Len(data) >= 2 /\ data[1].analysis = "default"

\* C10: the collection is append-only: every step keeps the records already
\* there, a step of the batch loop appends at most the record of the image
\* it analysed, and every other step (the synthesis run included) leaves
\* the collection unchanged.
C10_AppendOnly ==
    [][/\ IsPrefix(data, data')
       /\ pc = "analyze" =>
             \/ data' = data
             \/ /\ Len(data') = Len(data) + 1
                /\ data'[Len(data')].name = new[idx].name
                /\ data'[Len(data')].size = Len(new[idx].raw)
       /\ pc # "analyze" => data' = data]_vars

C10_Witness == press = "analyze" /\ pc = "idle" /\ Len(data) >= 2 /\ idx = Len(new) + 1

====
